---------------------------- MODULE Spec2Model ----------------------------
(***************************************************************************)
(* A model of halomod's HaloModel (src/halomod/halo_model.py): the         *)
(* validated parameters, the dependency-tracked cache of derived           *)
(* quantities, update() and the minimum-mass solver _find_m_min().         *)
(*                                                                         *)
(* Values of derived quantities are modelled by provenance: the value a    *)
(* rule computes is the set of <<parameter, value>> pairs that went into   *)
(* it, through the parameters it reads and the values of the quantities    *)
(* it reads (taken from the cache when they are cached); the value of      *)
(* corr_gal keeps its two terms apart.  Two values are equal iff they were *)
(* computed from the same inputs.                                          *)
(*                                                                         *)
(* Masses are log10 masses in grid units; densities are integers.          *)
(***************************************************************************)
EXTENDS Integers, Sequences, FiniteSets, TLC

VARIABLES live, last, errs, budget

vars == <<live, last, errs, budget>>

-----------------------------------------------------------------------------
(* Bounds of the model *)

\* operations (assignments, updates, reads, solver calls) on the instance
MaxOps == 2
\* operations in the runs that follow a few parameters and quantities further
MaxDeepOps == 5
\* operations in the runs that follow update() and the solver
MaxUpdOps == 3
\* iteration cap of the simplex minimisation, scaled to the model's mass grid
\* (maxiter=200 on a grid of 1000 points; here the grid has about 10)
MaxIter == 1
\* nesting depth of _find_m_min at which Python's recursion limit is taken to hit
MaxDepth == 2

(* Program constants *)

\* c.update(hod_params={"M_min":8}, ...): the low floor of the solver's clone
LogMFloor == 8
\* np.arange(self.hod.mmin, 18, self.dlog10m): upper end of the mass grid
LogMTop == 18
\* c.update(..., dlog10m=0.01): the clone's fine step, one grid unit here
FineStep == 1
\* minimize(model, 12.0, ...): starting guess of the minimisation
StartGuess == 12

\* bind the value of e to the parameter of F: With(e, LAMBDA x : body)
With(e, F(_)) == F(e)

-----------------------------------------------------------------------------
(* Python values that are assigned to the selectors *)

Str(s) == [kind |-> "str", base |-> "", name |-> s]
Cls(b, s) == [kind |-> "class", base |-> b, name |-> s]
PyNone == [kind |-> "NoneType", base |-> "", name |-> ""]
PyInt == [kind |-> "int", base |-> "", name |-> "3"]

\* ng is None
NoNg == 0 - 1
\* hod_params holds no "M_min" key
NoKey == 0 - 1

ParamNames ==
    {"ng", "hod_params", "hod_model", "halo_profile", "cm_relation",
     "bias_model", "halo_exclusion", "cm_params", "bias_params",
     "rmin", "rmax", "rnum", "nonlinear", "scale_dependent_bias",
     "dlog10m", "z"}

\* quantities HaloModel defines with @cached_property
OwnNodes ==
    {"r", "hod", "M", "n_sat", "n_cen", "n_tot", "bias", "cm",
     "concentration", "profile", "n_gal", "mean_gal_den", "bias_effective",
     "mass_effective", "satellite_fraction", "central_fraction",
     "matter_power", "dm_corr", "_power_gg_1h_ss", "_power_mm_1h",
     "_corr_mm_1h", "_corr_gg_1h_ss", "_corr_gg_1h_cs", "corr_gal_1h",
     "corr_gal_2h", "corr_gal"}

\* quantities inherited from MassFunction that are kept as cached nodes
InheritedNodes == {"dndm", "nu", "power"}

NodeNames == OwnNodes \cup InheritedNodes

\* inherited cosmology quantities: functions of the inherited parameters alone,
\* which the parameter "z" stands for
CosmoNames ==
    {"delta_c", "delta_halo", "n", "growth_model", "_growth", "mean_density0",
     "mean_density", "k", "nonlinear_power"}

-----------------------------------------------------------------------------
(* The pluggable model families (modules hod, profiles, concentration, bias) *)

SelectorOf(n) ==
    CASE n = "hod" -> "hod_model"
      [] n = "bias" -> "bias_model"
      [] n = "cm" -> "cm_relation"
      [] n = "profile" -> "halo_profile"

BaseOf(p) ==
    CASE p = "hod_model" -> "hod.HOD"
      [] p = "halo_profile" -> "profiles.Profile"
      [] p = "cm_relation" -> "CMRelation"
      [] p = "bias_model" -> "bias.Bias"

\* the names each family's module defines
Registry(p) ==
    CASE p = "hod_model" -> {"Zehavi05", "Zheng05"}
      [] p = "halo_profile" -> {"NFW", "Hernquist"}
      [] p = "cm_relation" -> {"Duffy", "Zehavi"}
      [] p = "bias_model" -> {"Tinker10", "ST"}

\* get_model(name, module, **kwargs): the module's attribute of that name
get_model(p, sel) == IF sel.name \in Registry(p) THEN "ok" ELSE "AttributeError"

\* hod.sharp_cut: the central occupation is a step function
SharpCut(sel) == sel.name = "Zehavi05"

\* profile.has_lam: the profile supplies its self-convolution lam(r, M)
HasLam(sel) == sel.name = "NFW"

-----------------------------------------------------------------------------
(* Parameters: the validators of the @parameter setters *)

Selectors == {"hod_model", "halo_profile", "cm_relation", "bias_model"}

IsString(val) == val.kind = "str"
IsSubclass(val, b) == val.kind = "class" /\ val.base = b

available == {"None", "sphere", "ellipsoid", "ng_matched", "schneider"}

\* setters that store whatever they are given
ValidateNothing(p, val) == [ok |-> TRUE, val |-> val]

\* [ok |-> the setter returns, val |-> the value it stores]
Validate(p, val) ==
    CASE p \in Selectors ->
           IF ~IsString(val) /\ ~IsSubclass(val, BaseOf(p))
           THEN [ok |-> FALSE, val |-> val]
           ELSE [ok |-> TRUE, val |-> val]
      [] p = "halo_exclusion" ->
           LET v == IF val = PyNone THEN Str("None") ELSE val
           IN IF ~(IsString(v) /\ v.name \in available)
              THEN [ok |-> FALSE, val |-> val]
              ELSE [ok |-> TRUE, val |-> v]
      [] p \in {"nonlinear", "scale_dependent_bias"} ->
           [ok |-> TRUE, val |-> IF val THEN TRUE ELSE FALSE]
      [] OTHER -> [ok |-> TRUE, val |-> val]

-----------------------------------------------------------------------------
(* Derived quantities: the dependency list each @cached_property declares *)

\* the list as it would be with halo_exclusion forgotten
corr_gal_2h_deps_no_exclusion ==
    {"profile", "k", "M", "scale_dependent_bias",
     "bias", "n_tot", "dndm", "matter_power", "r", "dm_corr",
     "mean_gal_den", "delta_halo", "mean_density0"}

\* @cached_property(...) of corr_gal_2h
corr_gal_2h_deps ==
    {"profile", "k", "M", "halo_exclusion", "scale_dependent_bias",
     "bias", "n_tot", "dndm", "matter_power", "r", "dm_corr",
     "mean_gal_den", "delta_halo", "mean_density0"}

\* the list as it would be with ng forgotten
mean_gal_den_deps_no_ng == {"M", "dndm", "n_tot"}

\* @cached_property(...) of mean_gal_den
mean_gal_den_deps == {"M", "dndm", "n_tot", "ng"}

Deps(n) ==
    CASE n = "r" -> {"rmin", "rmax", "rnum"}
      [] n = "hod" -> {"hod_model", "hod_params"}
      [] n = "M" -> {"hod", "dlog10m"}
      [] n = "n_sat" -> {"hod", "M"}
      [] n = "n_cen" -> {"hod", "M"}
      [] n = "n_tot" -> {"hod", "M"}
      [] n = "bias" ->
           {"bias_model", "nu", "delta_c", "delta_halo", "n", "bias_params"}
      [] n = "cm" ->
           {"cm_relation", "nu", "z", "growth_model", "M", "cm_params"}
      [] n = "concentration" -> {"cm", "M"}
      [] n = "profile" ->
           {"halo_profile", "delta_halo", "cm_relation", "z", "mean_density0"}
      [] n = "n_gal" -> {"dndm", "n_tot"}
      [] n = "mean_gal_den" -> mean_gal_den_deps
      [] n = "bias_effective" -> {"M", "dndm", "n_tot", "bias"}
      [] n = "mass_effective" -> {"M", "dndm", "n_tot", "mean_gal_den"}
      [] n = "satellite_fraction" -> {"M", "dndm", "n_sat", "mean_gal_den"}
      [] n = "central_fraction" -> {"satellite_fraction"}
      [] n = "matter_power" -> {"nonlinear", "power", "nonlinear_power"}
      [] n = "dm_corr" -> {"matter_power", "k", "r"}
      [] n = "_power_gg_1h_ss" ->
           {"k", "M", "dndm", "n_sat", "n_cen", "hod", "profile",
            "mean_gal_den"}
      [] n = "_power_mm_1h" ->
           {"profile", "dndm", "M", "k", "mean_density", "delta_halo",
            "dlog10m"}
      [] n = "_corr_mm_1h" ->
           {"profile", "dndm", "M", "r", "mean_density", "delta_halo",
            "dlog10m"}
      [] n = "_corr_gg_1h_ss" -> {"_power_gal_1h_ss", "k", "r"}
      [] n = "_corr_gg_1h_cs" ->
           {"r", "M", "dndm", "n_cen", "n_sat", "mean_density0",
            "delta_halo", "mean_gal_den"}
      [] n = "corr_gal_1h" ->
           {"r", "M", "dndm", "n_cen", "n_sat", "hod", "mean_density0",
            "delta_halo", "mean_gal_den", "_corr_gal_1h_cs",
            "_corr_gal_1h_ss"}
      [] n = "corr_gal_2h" -> corr_gal_2h_deps
      [] n = "corr_gal" -> {"corr_gal_1h", "corr_gal_2h"}

\* the dependency lists of the inherited MassFunction quantities
InheritedDeps(n) ==
    CASE n = "dndm" -> {"M", "z"}
      [] n = "nu" -> {"M", "z"}
      [] n = "power" -> {"z"}

DeclaredDeps(n) == IF n \in OwnNodes THEN Deps(n) ELSE InheritedDeps(n)

\* the names whose change invalidates n directly; a cosmology quantity changes
\* with the inherited parameters
Parents(n) ==
    (DeclaredDeps(n) \ CosmoNames)
      \cup (IF DeclaredDeps(n) \cap CosmoNames # {} THEN {"z"} ELSE {})

\* every node reached from the changed names along declared dependencies
RECURSIVE Affected(_)
Affected(S) ==
    LET T == S \cup {n \in NodeNames : Parents(n) \cap S # {}}
    IN IF T = S THEN S \cap NodeNames ELSE Affected(T)


\* the quantities each parameter's change marks for recalculation
AffectedBy == {<<p, Affected({p})>> : p \in ParamNames}

Dependents(p) == (CHOOSE t \in AffectedBy : t[1] = p)[2]

-----------------------------------------------------------------------------
(* An instance: its parameters, and the cache of its derived quantities.   *)
(* valid is the set of cached quantities, val their cached values.         *)

NoVal == {}

\* the parameter setter's last step: store the value and mark the dependents
Store(o, p, val) ==
    [par |-> [o.par EXCEPT ![p] = val],
     valid |-> o.valid \ Dependents(p),
     val |-> [n \in NodeNames |->
                IF n \in Dependents(p) THEN NoVal ELSE o.val[n]]]

\* a parameter setter: validate, and store when the value differs
SetParam(o, p, val) ==
    With(Validate(p, val), LAMBDA chk :
      IF ~chk.ok THEN [o |-> o, ok |-> FALSE]
      ELSE IF chk.val = o.par[p] THEN [o |-> o, ok |-> TRUE]
      ELSE [o |-> Store(o, p, chk.val), ok |-> TRUE])

-----------------------------------------------------------------------------
(* Numbers: a synthetic mass function and occupation, on integer grids *)

\* the occupation model's M_min when hod_params gives none
DefaultMmin == 11

MminOf(o) ==
    IF o.par["hod_params"] = NoKey THEN DefaultMmin ELSE o.par["hod_params"]

\* hod.mmin: where the mass grid starts; a smooth cutoff reaches below M_min
HodMmin(o) ==
    IF SharpCut(o.par["hod_model"]) THEN MminOf(o) ELSE MminOf(o) - 1

\* np.arange(self.hod.mmin, 18, self.dlog10m)
RECURSIVE Arange(_, _, _)
Arange(lo, hi, step) ==
    IF lo >= hi THEN <<>> ELSE <<lo>> \o Arange(lo + step, hi, step)

MassGrid(o) == Arange(HodMmin(o), LogMTop, o.par["dlog10m"])

\* M * dndm at log-mass m: positive, falling with mass, larger at z1
MDndm(z, m) == (IF z = "z1" THEN 12 ELSE 6) * (LogMTop - m)

\* twice n_tot(M): 2 above M_min, 1 in the half-step below it for a smooth cutoff
NTot2(o, m) ==
    IF m >= MminOf(o) THEN 2
    ELSE IF ~SharpCut(o.par["hod_model"]) /\ m >= MminOf(o) - 1 THEN 1
    ELSE 0

\* integrand = c.M * c.dndm * c.n_tot over the grid M
RECURSIVE IntegrandFrom(_, _, _)
IntegrandFrom(o, M, i) ==
    IF i > Len(M) THEN <<>>
    ELSE <<(MDndm(o.par["z"], M[i]) * NTot2(o, M[i])) \div 2>>
           \o IntegrandFrom(o, M, i + 1)

Integrand(o) == IntegrandFrom(o, MassGrid(o), 1)

\* s[::-1]
RECURSIVE Reverse(_)
Reverse(s) == IF s = <<>> THEN <<>> ELSE Reverse(Tail(s)) \o <<Head(s)>>

\* a[lo:hi] of Python, on 1-based sequences
Slice(a, lo, hi) ==
    IF lo >= Len(a) \/ lo >= hi THEN <<>>
    ELSE SubSeq(a, lo + 1, IF hi > Len(a) THEN Len(a) ELSE hi)

Max(a, b) == IF a > b THEN a ELSE b
Min(a, b) == IF a < b THEN a ELSE b
Abs(a) == IF a < 0 THEN 0 - a ELSE a

\* intg.cumtrapz(y, dx=dx): the running trapezoidal sums, one fewer than y
RECURSIVE CumTrapzFrom(_, _, _, _)
CumTrapzFrom(y, dx, i, acc) ==
    IF i >= Len(y) THEN <<>>
    ELSE With(acc + ((y[i] + y[i + 1]) * dx) \div 2, LAMBDA sum :
           <<sum>> \o CumTrapzFrom(y, dx, i + 1, sum))

\* the running sums with dx taken from the reversed grid, log(M[i] / M[i + 1])
cumtrapz_backward(y, dx) == CumTrapzFrom(y, 0 - dx, 1, 0)

cumtrapz(y, dx) == CumTrapzFrom(y, dx, 1, 0)

\* six times intg.simps(y, dx=dx): Simpson's rule on an odd number of
\* samples, and for an even number the average of the two ways of
\* treating the odd interval by the trapezoidal rule (even='avg')
RECURSIVE SimpsOdd6(_, _, _)
SimpsOdd6(y, dx, i) ==
    IF i + 2 > Len(y) THEN 0
    ELSE 2 * dx * (y[i] + 4 * y[i + 1] + y[i + 2]) + SimpsOdd6(y, dx, i + 2)

simps6(y, dx) ==
    IF Len(y) < 2 THEN 0
    ELSE IF Len(y) % 2 = 1 THEN SimpsOdd6(y, dx, 1)
    ELSE (SimpsOdd6(Slice(y, 0, Len(y) - 1), dx, 1)
          + 3 * dx * (y[Len(y) - 1] + y[Len(y)])
          + 3 * dx * (y[1] + y[2])
          + SimpsOdd6(Slice(y, 1, Len(y)), dx, 1)) \div 2

\* np.where(integral > ng)[0]: the 0-based indices that exceed ng
WhereAbove(integral, ng) ==
    {j - 1 : j \in {i \in 1..Len(integral) : integral[i] > ng}}

MinOf(S) == CHOOSE x \in S : \A y \in S : x <= y

\* the segment of the knots x that holds `at`, or the end segment beyond them
Segment(x, at) ==
    IF \E j \in 1..(Len(x) - 1) : x[j] <= at /\ at < x[j + 1]
    THEN MinOf({j \in 1..(Len(x) - 1) : x[j] <= at /\ at < x[j + 1]})
    ELSE IF at < x[1] THEN 1 ELSE Len(x) - 1

\* spline(x, y, k=3)(at): the interpolant through (x[i], y[i]), evaluated at
\* `at`; piecewise linear here, continued past either end
Interp(x, y, at) ==
    With(Segment(x, at), LAMBDA j :
      IF x[j + 1] = x[j] THEN y[j]
      ELSE y[j] + ((at - x[j]) * (y[j + 1] - y[j])) \div (x[j + 1] - x[j]))

\* intg.trapz(y, dx=dx): the trapezoidal sum over the whole of y
RECURSIVE TrapzFrom(_, _, _)
TrapzFrom(y, dx, i) ==
    IF i >= Len(y) THEN 0
    ELSE ((y[i] + y[i + 1]) * dx) \div 2 + TrapzFrom(y, dx, i + 1)

trapz(y, dx) == TrapzFrom(y, dx, 1)

-----------------------------------------------------------------------------
(* The rules of the derived quantities *)

\* the attributes a rule's body reads before it branches, in source order
Reads1(n) ==
    CASE n = "r" -> <<"rmin", "rmax", "rnum">>
      [] n = "hod" -> <<"hod_model", "hod_params">>
      [] n = "M" -> <<"hod", "dlog10m">>
      [] n = "n_sat" -> <<"hod", "M">>
      [] n = "n_cen" -> <<"hod", "M">>
      [] n = "n_tot" -> <<"hod", "M">>
      [] n = "bias" ->
           <<"bias_model", "nu", "delta_c", "delta_halo", "n", "bias_params">>
      [] n = "cm" ->
           <<"cm_relation", "nu", "z", "_growth", "M", "cm_params">>
      [] n = "concentration" -> <<"cm", "M">>
      [] n = "profile" ->
           <<"halo_profile", "cm", "mean_density0", "delta_halo", "z">>
      [] n = "n_gal" -> <<"dndm", "n_tot">>
      [] n = "mean_gal_den" -> <<"ng">>
      [] n = "bias_effective" ->
           <<"M", "dndm", "n_tot", "bias", "mean_gal_den">>
      [] n = "mass_effective" -> <<"M", "dndm", "n_tot", "mean_gal_den">>
      [] n = "satellite_fraction" -> <<"M", "dndm", "n_sat", "mean_gal_den">>
      [] n = "central_fraction" -> <<"satellite_fraction">>
      [] n = "matter_power" -> <<"nonlinear">>
      [] n = "dm_corr" -> <<"matter_power", "k", "r">>
      [] n = "_power_gg_1h_ss" ->
           <<"profile", "k", "M", "dndm", "n_sat", "n_cen", "hod",
             "mean_gal_den">>
      [] n = "_power_mm_1h" ->
           <<"profile", "k", "M", "dndm", "mean_density", "delta_halo",
             "dlog10m">>
      [] n = "_corr_mm_1h" -> <<"profile">>
      [] n = "_corr_gg_1h_ss" -> <<"_power_gg_1h_ss", "k", "r">>
      [] n = "_corr_gg_1h_cs" ->
           <<"profile", "r", "M", "dndm", "n_cen", "n_sat", "mean_density0",
             "delta_halo", "mean_gal_den">>
      [] n = "corr_gal_1h" -> <<"profile">>
      [] n = "corr_gal_2h" ->
           <<"profile", "k", "M", "halo_exclusion", "scale_dependent_bias",
             "bias", "n_tot", "dndm", "matter_power", "r", "dm_corr",
             "mean_gal_den", "delta_halo", "mean_density0">>
      [] n = "corr_gal" -> <<"corr_gal_1h", "corr_gal_2h">>
      [] n = "dndm" -> <<"M", "z">>
      [] n = "nu" -> <<"M", "z">>
      [] n = "power" -> <<"z">>

\* the has_lam flag of a profile value: that of the class it was built from
HasLamOf(v) == \E l \in v : l[1] = "halo_profile" /\ HasLam(l[2])

\* the attributes the body reads after its branch, given what it read first
Reads2(o, n, v1) ==
    CASE n = "mean_gal_den" ->
           IF o.par["ng"] # NoNg THEN <<"M", "dndm">>
           ELSE <<"M", "dndm", "n_tot", "M">>
      [] n = "matter_power" ->
           IF o.par["nonlinear"] THEN <<"nonlinear_power">> ELSE <<"power">>
      [] n = "_corr_mm_1h" ->
           IF HasLamOf(v1)
           THEN <<"r", "M", "dndm", "mean_density", "delta_halo", "dlog10m">>
           ELSE <<"_power_mm_1h", "k", "r">>
      [] n = "corr_gal_1h" ->
           IF HasLamOf(v1)
           THEN <<"r", "M", "dndm", "n_cen", "n_sat", "hod", "mean_density0",
                  "delta_halo", "mean_gal_den">>
           ELSE <<"_corr_gal_1h_cs", "_corr_gal_1h_ss">>
      [] OTHER -> <<>>

\* a + b: the value made of exactly these two terms
Sum(a, b) == {<<"1h", l>> : l \in a} \cup {<<"2h", l>> : l \in b}

\* a rule that adds the 2-halo term to itself
corr_gal_2h_twice(o) == Sum(o.val["corr_gal_2h"], o.val["corr_gal_2h"])

\* return self.corr_gal_1h + self.corr_gal_2h, both read and cached by now
corr_gal(o) == Sum(o.val["corr_gal_1h"], o.val["corr_gal_2h"])

\* the value of parameter p that went into a value
ParOf(leaves, p) == (CHOOSE l \in leaves : l[1] = p)[2]

\* the parameters that fix the mass grid and the integrand, as they went into
\* the values of M, dndm and n_tot that a rule read
GridView(leaves) ==
    [par |-> [p \in {"hod_params", "hod_model", "dlog10m", "z"} |->
                ParOf(leaves, p)]]

\* the body of mean_gal_den once self.ng is read: ng itself (only the units
\* of M and dndm enter the value), or the trapezoidal integral of
\* M * dndm * n_tot over the grid M with dx = log(M[1] / M[0])
mean_gal_den(o, leaves) ==
    IF o.par["ng"] # NoNg
    THEN [ok |-> TRUE, v |-> {<<"ng", o.par["ng"]>>}, err |-> ""]
    ELSE IF Len(MassGrid(GridView(leaves))) < 2
    THEN [ok |-> FALSE, v |-> NoVal, err |-> "IndexError"]
    ELSE [ok |-> TRUE,
          v |-> leaves \cup {<<"trapz", trapz(Integrand(GridView(leaves)),
                                              ParOf(leaves, "dlog10m"))>>},
          err |-> ""]

\* bodies that return what they have whether or not the model exists
BodySwallowed(o, n, leaves) == [ok |-> TRUE, v |-> leaves, err |-> ""]

\* what the body makes of the values it read: a value, or the error it raises
Body(o, n, leaves) ==
    CASE n \in {"hod", "bias", "cm", "profile"} ->
           IF IsSubclass(o.par[SelectorOf(n)], BaseOf(SelectorOf(n)))
              \/ get_model(SelectorOf(n), o.par[SelectorOf(n)]) = "ok"
           THEN [ok |-> TRUE, v |-> leaves, err |-> ""]
           ELSE [ok |-> FALSE, v |-> NoVal,
                 err |-> get_model(SelectorOf(n), o.par[SelectorOf(n)])]
      [] n = "mean_gal_den" -> mean_gal_den(o, leaves)
      [] n = "corr_gal" -> [ok |-> TRUE, v |-> corr_gal(o), err |-> ""]
      [] OTHER -> [ok |-> TRUE, v |-> leaves, err |-> ""]

\* the result of reading an attribute: the instance afterwards, the value or
\* the error, the rules that ran and returned, and the rules that raised
Got(o, v, ran) ==
    [o |-> o, ok |-> TRUE, v |-> v, err |-> "", ran |-> ran, failed |-> {}]
\* a getter that caches an empty value for the rules that raised
RaisedCached(o, err, ran, failed) ==
    [o |-> [o EXCEPT !.valid = @ \cup failed], ok |-> FALSE, v |-> NoVal,
     err |-> err, ran |-> ran, failed |-> failed]

Raised(o, err, ran, failed) ==
    [o |-> o, ok |-> FALSE, v |-> NoVal, err |-> err, ran |-> ran,
     failed |-> failed]

\* the cached_property getter's last step: keep the value the rule returned
Cache(o, name, v) == [o EXCEPT !.valid = @ \cup {name}, !.val[name] = v]

\* self.<name>: a parameter, an inherited cosmology quantity, a cached
\* property (computed and cached when it is not valid), or no attribute at all
RECURSIVE Get(_, _), GetSeq(_, _, _)
GetSeq(acc, names, i) ==
    IF i > Len(names) \/ ~acc.ok THEN acc
    ELSE With(Get(acc.o, names[i]), LAMBDA got :
           GetSeq([o |-> got.o, ok |-> got.ok, v |-> acc.v \cup got.v,
                   err |-> got.err, ran |-> acc.ran \cup got.ran,
                   failed |-> got.failed],
                  names, i + 1))

Get(o, name) ==
    IF name \in ParamNames THEN Got(o, {<<name, o.par[name]>>}, {})
    ELSE IF name \in CosmoNames THEN Got(o, {<<"z", o.par["z"]>>}, {})
    ELSE IF name \notin NodeNames THEN Raised(o, "AttributeError", {}, {})
    ELSE IF name \in o.valid THEN Got(o, o.val[name], {})
    ELSE With(GetSeq(Got(o, NoVal, {}), Reads1(name), 1), LAMBDA first :
         With(IF first.ok
              THEN GetSeq(first, Reads2(first.o, name, first.v), 1)
              ELSE first, LAMBDA read :
         IF ~read.ok
         THEN Raised(read.o, read.err, read.ran, read.failed \cup {name})
         ELSE With(Body(read.o, name, read.v), LAMBDA res :
              IF ~res.ok THEN Raised(read.o, res.err, read.ran, {name})
              ELSE Got(Cache(read.o, name, res.v), res.v,
                       read.ran \cup {name}))))

\* the instance with nothing cached
Empty(o) == [o EXCEPT !.valid = {}, !.val = [n \in NodeNames |-> NoVal]]

\* what a quantity's rule computes from the current parameters alone
RuleValue(o, n) == Get(Empty(o), n)

-----------------------------------------------------------------------------
(* update() and _find_m_min().  H is the heap: a sequence of instances, the *)
(* live one first; an instance is named by its index.  st records what a    *)
(* call did, and which rules of the instance it was made on ran or raised.  *)

NoStats == [solves |-> 0, copies |-> 0, clone_updates |-> 0, trials |-> 0,
            branch |-> "", converged |-> TRUE, reported |-> 0 - 1,
            maxden |-> 0 - 1, ran |-> {}, failed |-> {},
            integral |-> <<>>, ind |-> 0 - 1, m |-> <<>>, window |-> <<>>]

\* c = self: the same instance under another name
shallow_copy(H, id) == [H |-> H, id |-> id]

\* c = deepcopy(self): a new instance, equal to self and sharing nothing with it
deepcopy(H, id) == [H |-> Append(H, H[id]), id |-> Len(H) + 1]

\* self.<p> = val on the instance id of the heap
SetAttr(H, id, p, val) ==
    With(SetParam(H[id], p, val), LAMBDA s :
      [H |-> [H EXCEPT ![id] = s.o], ok |-> s.ok])

\* super().update(**kwargs): one setattr per keyword, in the dict's order,
\* stopping at the first that raises
RECURSIVE ApplyAll(_, _, _, _, _)
ApplyAll(H, id, kw, order, i) ==
    IF i > Len(order) THEN [H |-> H, ok |-> TRUE]
    ELSE With(SetAttr(H, id, order[i], kw[order[i]]), LAMBDA s :
           IF ~s.ok THEN [H |-> s.H, ok |-> FALSE]
           ELSE ApplyAll(s.H, id, kw, order, i + 1))

\* self.<name> read on the instance id of the heap
Read(H, id, name) ==
    With(Get(H[id], name), LAMBDA got :
      [H |-> [H EXCEPT ![id] = got.o], ok |-> got.ok, err |-> got.err,
       v |-> got.v, ran |-> got.ran, failed |-> got.failed])

RECURSIVE ReadAll(_, _, _, _)
ReadAll(H, id, names, i) ==
    IF i > Len(names) THEN [H |-> H, ok |-> TRUE, err |-> ""]
    ELSE With(Read(H, id, names[i]), LAMBDA got :
           IF ~got.ok THEN [H |-> got.H, ok |-> FALSE, err |-> got.err]
           ELSE ReadAll(got.H, id, names, i + 1))

\* what a call of update(), model() or _find_m_min() left: the heap, whether
\* it returned, the error it raised and, for the solver, the mass it returned
Returned(H, st, mmin) ==
    [H |-> H, ok |-> TRUE, err |-> "", st |-> st, mmin |-> mmin]
Raise(H, err, st) ==
    [H |-> H, ok |-> FALSE, err |-> err, st |-> st, mmin |-> 0]

RECURSIVE update(_, _, _, _, _, _)
RECURSIVE _find_m_min(_, _, _, _, _)
RECURSIVE minimize(_, _, _, _, _, _, _, _)

\* model(mmin) of the smooth branch: update the clone, integrate, and return
\* |integral - ng| in .mmin (six times it, as simps6 is six times the integral)
model(H, c, ng, mmin, st, depth) ==
    With(update(H, c, [hod_params |-> mmin], <<"hod_params">>,
                [st EXCEPT !.trials = @ + 1, !.clone_updates = @ + 1], depth),
         LAMBDA u :
      IF ~u.ok THEN u
      ELSE With(ReadAll(u.H, c, <<"M", "dndm", "n_tot", "M">>, 1), LAMBDA got :
             IF ~got.ok THEN Raise(got.H, got.err, u.st)
             ELSE Returned(got.H, u.st,
                           Abs(simps6(Integrand(got.H[c]),
                                      got.H[c].par["dlog10m"]) - 6 * ng))))

\* minimize(model, 12.0, tol=1e-3, method="Nelder-Mead",
\*          options={"maxiter": 200}): a simplex walk on the grid.  Each
\* iteration tries both neighbours of x and moves to the better one; the walk
\* has converged when neither improves, and gives up at the iteration cap.
\* .mmin is res.x[0], .st.converged is res.success
minimize(H, c, ng, x, fx, iter, st, depth) ==
    IF iter >= MaxIter THEN Returned(H, [st EXCEPT !.converged = FALSE], x)
    ELSE With(model(H, c, ng, x - 1, st, depth), LAMBDA lo :
           IF ~lo.ok THEN lo
           ELSE With(model(lo.H, c, ng, x + 1, lo.st, depth), LAMBDA hi :
                  IF ~hi.ok THEN hi
                  ELSE IF lo.mmin >= fx /\ hi.mmin >= fx
                  THEN Returned(hi.H, [hi.st EXCEPT !.converged = TRUE], x)
                  ELSE IF lo.mmin <= hi.mmin
                  THEN minimize(hi.H, c, ng, x - 1, lo.mmin, iter + 1, hi.st,
                                depth)
                  ELSE minimize(hi.H, c, ng, x + 1, hi.mmin, iter + 1, hi.st,
                                depth)))

\* the largest density any mass threshold on the clone's grid gives
RECURSIVE SeqMax(_, _)
SeqMax(s, i) == IF i > Len(s) THEN 0 ELSE Max(s[i], SeqMax(s, i + 1))

MaxDensity(o, sharp) ==
    IF sharp
    THEN SeqMax(cumtrapz(Reverse(Integrand(o)), o.par["dlog10m"]), 1)
    ELSE simps6(Integrand(o), o.par["dlog10m"]) \div 6

\* the window of the sharp branch and the inverse interpolation in it
SharpWindow(H, M, integral, ng, st) ==
    IF WhereAbove(integral, ng) = {}
    THEN Raise(H, "IndexError", [st EXCEPT !.integral = integral])
    ELSE With(MinOf(WhereAbove(integral, ng)), LAMBDA ind :
         With(Slice(Slice(Reverse(M), 1, Len(M)),
                    Max(ind - 4, 0), Min(ind + 4, Len(M))), LAMBDA m :
         With(Slice(integral, Max(ind - 4, 0), Min(ind + 4, Len(M))),
              LAMBDA window :
           IF Len(window) < 4
           THEN Raise(H, "SplineError",
                      [st EXCEPT !.integral = integral, !.ind = ind,
                                 !.m = m, !.window = window])
           ELSE Returned(H, [st EXCEPT !.integral = integral, !.ind = ind,
                                       !.m = m, !.window = window],
                         Interp(window, m, ng)))))

\* the sharp branch without its feasibility check
SharpBranchUnchecked(H, c, ng, st) ==
    SharpWindow(H, MassGrid(H[c]),
                cumtrapz(Reverse(Integrand(H[c])), H[c].par["dlog10m"]),
                ng, st)

\* the sharp-cutoff branch, on the clone c: cumulative integral from the top
\* of the grid down, feasibility check, window and inverse interpolation
SharpBranch(H, c, ng, st) ==
    With(cumtrapz(Reverse(Integrand(H[c])), H[c].par["dlog10m"]),
         LAMBDA integral :
      IF integral[Len(integral)] < ng
      THEN Raise(H, "NGException",
                 [st EXCEPT !.reported = integral[Len(integral)],
                            !.integral = integral])
      ELSE SharpWindow(H, MassGrid(H[c]), integral, ng, st))

\* the smooth-cutoff branch, on the clone c: full integral, feasibility check,
\* minimization of model(mmin) from the starting guess
SmoothBranch(H, c, ng, st, depth) ==
    With(simps6(Integrand(H[c]), H[c].par["dlog10m"]), LAMBDA integral6 :
      IF integral6 < 6 * ng
      THEN Raise(H, "NGException", [st EXCEPT !.reported = integral6 \div 6])
      ELSE With(model(H, c, ng, StartGuess, st, depth), LAMBDA f0 :
             IF ~f0.ok THEN f0
             ELSE minimize(f0.H, c, ng, StartGuess, f0.mmin, 0, f0.st, depth)))

\* hod.sharp_cut of a hod value: that of the class it was built from
SharpCutOf(v) == \E l \in v : l[1] = "hod_model" /\ SharpCut(l[2])

\* self._find_m_min(ng) on the instance id
_find_m_min(H, id, ng, st0, depth) ==
    IF depth > MaxDepth THEN Raise(H, "RecursionError", st0)
    ELSE
    With(Read(H, id, "power"), LAMBDA p :
      IF ~p.ok THEN Raise(p.H, p.err, [st0 EXCEPT !.failed = @ \cup p.failed])
      ELSE
    With(deepcopy(p.H, id), LAMBDA d :
    With(update(d.H, d.id, [hod_params |-> LogMFloor, dlog10m |-> FineStep],
                <<"hod_params", "dlog10m">>,
                [st0 EXCEPT !.solves = @ + 1, !.copies = @ + 1,
                            !.clone_updates = @ + 1, !.ran = @ \cup p.ran],
                depth + 1), LAMBDA u :
      IF ~u.ok THEN u
      ELSE
    With(ReadAll(u.H, d.id, <<"M", "dndm", "n_tot">>, 1), LAMBDA got :
      IF ~got.ok THEN Raise(got.H, got.err, u.st)
      ELSE
    With(Read(got.H, id, "hod"), LAMBDA h :
      IF ~h.ok THEN Raise(h.H, h.err, [u.st EXCEPT !.failed = @ \cup h.failed])
      ELSE IF SharpCutOf(h.v)
      THEN SharpBranch(h.H, d.id, ng,
                       [u.st EXCEPT !.branch = "sharp", !.ran = @ \cup h.ran,
                                    !.maxden = MaxDensity(h.H[d.id], TRUE)])
      ELSE SmoothBranch(h.H, d.id, ng,
                        [u.st EXCEPT !.branch = "smooth", !.ran = @ \cup h.ran,
                                     !.maxden = MaxDensity(h.H[d.id], FALSE)],
                        depth + 1))))))

\* first lines that never clear ng
SetNgNoClear(H, id, kw) ==
    IF "ng" \in DOMAIN kw THEN SetAttr(H, id, "ng", kw["ng"]).H ELSE H

\* first lines that test hod_params before ng: an M_min clears ng even when
\* ng is passed with it
SetNgMminFirst(H, id, kw) ==
    IF "hod_params" \in DOMAIN kw /\ kw["hod_params"] # NoKey
    THEN SetAttr(H, id, "ng", NoNg).H
    ELSE IF "ng" \in DOMAIN kw THEN SetAttr(H, id, "ng", kw["ng"]).H
    ELSE H

\* the first lines of update(): ng is popped and stored, or cleared when
\* hod_params brings an M_min
SetNg(H, id, kw) ==
    IF "ng" \in DOMAIN kw THEN SetAttr(H, id, "ng", kw["ng"]).H
    ELSE IF "hod_params" \in DOMAIN kw /\ kw["hod_params"] # NoKey
    THEN SetAttr(H, id, "ng", NoNg).H
    ELSE H

\* an update() that solves for M_min before it applies the other keywords
update_solve_first(H, id, kw, order, st, depth) ==
    With(SetNg(H, id, kw), LAMBDA H1 :
      IF H1[id].par["ng"] = NoNg
      THEN With(ApplyAll(H1, id, kw, order, 1), LAMBDA a :
             IF ~a.ok THEN Raise(a.H, "ValueError", st)
             ELSE Returned(a.H, st, 0))
      ELSE With(_find_m_min(H1, id, H1[id].par["ng"], st, depth), LAMBDA f :
             IF ~f.ok THEN f
             ELSE With(ApplyAll(SetAttr(f.H, id, "hod_params", f.mmin).H,
                                id, kw, order, 1), LAMBDA a :
                    IF ~a.ok THEN Raise(a.H, "ValueError", f.st)
                    ELSE Returned(a.H, f.st, f.mmin))))

\* self.update(**kwargs) on the instance id; order is the order in which
\* super().update() meets the keywords other than ng
update(H, id, kw, order, st, depth) ==
    With(ApplyAll(SetNg(H, id, kw), id, kw, order, 1), LAMBDA a :
      IF ~a.ok THEN Raise(a.H, "ValueError", st)
      ELSE IF a.H[id].par["ng"] = NoNg THEN Returned(a.H, st, 0)
      ELSE With(_find_m_min(a.H, id, a.H[id].par["ng"], st, depth), LAMBDA f :
             IF ~f.ok THEN f
             ELSE Returned(SetAttr(f.H, id, "hod_params", f.mmin).H, f.st,
                           f.mmin)))

-----------------------------------------------------------------------------
(* Construction *)

Defaults ==
    [p \in ParamNames |->
       CASE p = "ng" -> NoNg
         [] p = "hod_params" -> NoKey
         [] p = "hod_model" -> Str("Zehavi05")
         [] p = "halo_profile" -> Str("NFW")
         [] p = "cm_relation" -> Str("Duffy")
         [] p = "bias_model" -> Str("Tinker10")
         [] p = "halo_exclusion" -> Str("None")
         [] p = "cm_params" -> "c0"
         [] p = "bias_params" -> "b0"
         [] p = "rmin" -> 1
         [] p = "rmax" -> 50
         [] p = "rnum" -> 20
         [] p = "nonlinear" -> TRUE
         [] p = "scale_dependent_bias" -> TRUE
         [] p = "dlog10m" -> 1
         [] p = "z" -> "z0"]

\* the instance once every parameter is stored and nothing is cached
Stored(args) ==
    [par |-> [p \in ParamNames |-> Validate(p, args[p]).val],
     valid |-> {},
     val |-> [n \in NodeNames |-> NoVal]]

\* HaloModel(**args): store every parameter through its setter, then solve
\* for M_min when ng is given.  [ok |-> no exception, o |-> the instance]
__init__(args) ==
    IF \E p \in ParamNames : ~Validate(p, args[p]).ok
    THEN [ok |-> FALSE, o |-> Stored(Defaults)]
    ELSE IF args["ng"] = NoNg THEN [ok |-> TRUE, o |-> Stored(args)]
    ELSE With(_find_m_min(<<Stored(args)>>, 1, args["ng"], NoStats, 1),
              LAMBDA f :
           IF ~f.ok THEN [ok |-> FALSE, o |-> f.H[1]]
           ELSE [ok |-> TRUE,
                 o |-> SetAttr(f.H, 1, "hod_params", f.mmin).H[1]])

-----------------------------------------------------------------------------
(* The values the operations are tried with *)

Inputs(p) ==
    CASE p = "ng" -> {NoNg, 150, 297, 1000}
      [] p = "hod_params" -> {NoKey, 11, 13}
      [] p = "hod_model" ->
           {Str("Zehavi05"), Str("Zheng05"), Str("Bogus"), PyInt}
      [] p = "halo_profile" -> {Str("NFW"), Str("Hernquist"), PyInt}
      [] p = "cm_relation" -> {Str("Duffy"), Str("Zehavi")}
      [] p = "bias_model" -> {Str("Tinker10"), Cls("bias.Bias", "ST")}
      [] p = "halo_exclusion" ->
           {Str("None"), Str("sphere"), PyNone, Str("cube")}
      [] p = "cm_params" -> {"c0", "c1"}
      [] p = "bias_params" -> {"b0", "b1"}
      [] p = "rmin" -> {1, 2}
      [] p = "rmax" -> {50}
      [] p = "rnum" -> {20}
      [] p = "nonlinear" -> BOOLEAN
      [] p = "scale_dependent_bias" -> BOOLEAN
      [] p = "dlog10m" -> {1, 2}
      [] p = "z" -> {"z0", "z1"}

\* the quantities read and the values tried in the longer runs
DeepReads == {"corr_gal", "concentration", "hod"}

DeepAssigns ==
    {<<"hod_model", Str("Zehavi05")>>, <<"hod_model", Str("Bogus")>>,
     <<"cm_params", "c0">>, <<"cm_params", "c1">>}

\* the keywords update() is tried with one at a time, and two at a time
UpdateKeys == {"ng", "hod_params", "hod_model", "halo_exclusion", "cm_params"}

KeyPairs ==
    {<<"ng", "hod_params">>, <<"ng", "halo_exclusion">>,
     <<"hod_params", "halo_exclusion">>}

\* the orders in which super().update() can meet the keywords other than ng
Orders(p, q) ==
    IF p = "ng" THEN {<<q>>} ELSE {<<p, q>>, <<q, p>>}

CtorArgs ==
    {[Defaults EXCEPT !["ng"] = g, !["hod_model"] = h] :
       g \in Inputs("ng"), h \in {Str("Zehavi05"), Str("Zheng05"), Str("Bogus")}}

-----------------------------------------------------------------------------
(* The state machine: one instance, what the last operation on it did, the  *)
(* quantities whose latest computation raised, and the operations left      *)

NoOp == [op |-> "init", name |-> "", kw |-> <<>>, ok |-> TRUE, err |-> "",
         ran |-> {}, failed |-> {}, recovered |-> {}, cached |-> {},
         ng |-> NoNg, ng0 |-> NoNg, st |-> NoStats]

\* the instances HaloModel(**args) constructs without raising
Constructed == {__init__(a).o : a \in {b \in CtorArgs : __init__(b).ok}}

Init ==
    /\ live \in Constructed
    /\ last = NoOp
    /\ errs = {}
    /\ budget = MaxOps

\* the operation left the instance o and the record rec
Step(o, rec) ==
    /\ live' = o
    /\ last' = [rec EXCEPT !.cached = live.valid,
                           !.recovered = errs \cap rec.ran,
                           !.ng0 = live.par["ng"]]
    /\ errs' = (errs \ rec.ran) \cup rec.failed
    /\ budget' = budget - 1

\* h.<p> = v
Assign(p, v) ==
    /\ budget > 0
    /\ With(SetParam(live, p, v), LAMBDA s :
         Step(s.o, [NoOp EXCEPT !.op = "assign", !.name = p, !.kw = p :> v,
                                !.ok = s.ok,
                                !.err = IF s.ok THEN "" ELSE "ValueError"]))

\* h.<n> of a plain property: the rule runs and nothing is kept
ReadAttrUncached(n) ==
    /\ budget > 0
    /\ With(Get(live, n), LAMBDA got :
         Step(live, [NoOp EXCEPT !.op = "read", !.name = n, !.ok = got.ok,
                                 !.err = got.err, !.ran = got.ran,
                                 !.failed = got.failed]))

\* h.<n>
ReadAttr(n) ==
    /\ budget > 0
    /\ With(Get(live, n), LAMBDA got :
         Step(got.o, [NoOp EXCEPT !.op = "read", !.name = n, !.ok = got.ok,
                                  !.err = got.err, !.ran = got.ran,
                                  !.failed = got.failed]))

\* h.update(**kw)
Update(kw, order) ==
    /\ budget > 0
    /\ With(update(<<live>>, 1, kw, order, NoStats, 1), LAMBDA u :
         Step(u.H[1], [NoOp EXCEPT !.op = "update", !.kw = kw, !.ok = u.ok,
                                   !.err = u.err, !.st = u.st,
                                   !.ran = u.st.ran, !.failed = u.st.failed,
                                   !.ng = u.H[1].par["ng"]]))

\* h._find_m_min(ng)
FindMMin(ng) ==
    /\ budget > 0
    /\ With(_find_m_min(<<live>>, 1, ng, NoStats, 1), LAMBDA f :
         Step(f.H[1], [NoOp EXCEPT !.op = "find", !.ok = f.ok, !.err = f.err,
                                   !.st = f.st, !.ran = f.st.ran,
                                   !.failed = f.st.failed, !.ng = ng]))

Next ==
    \/ \E p \in ParamNames : \E v \in Inputs(p) : Assign(p, v)
    \/ \E p \in UpdateKeys \ {"ng"} : \E v \in Inputs(p) :
          Update(p :> v, <<p>>)
    \/ \E v \in Inputs("ng") : Update("ng" :> v, <<>>)
    \/ \E pq \in KeyPairs :
          \E v \in Inputs(pq[1]) : \E w \in Inputs(pq[2]) :
            \E order \in Orders(pq[1], pq[2]) :
              Update(pq[1] :> v @@ pq[2] :> w, order)
    \/ \E n \in NodeNames : ReadAttr(n)
    \/ \E ng \in Inputs("ng") \ {NoNg} : FindMMin(ng)

Spec == Init /\ [][Next]_vars

\* longer runs over fewer parameters and quantities
InitDeep ==
    /\ live \in Constructed
    /\ last = NoOp
    /\ errs = {}
    /\ budget = MaxDeepOps

NextDeep ==
    \/ \E a \in DeepAssigns : Assign(a[1], a[2])
    \/ \E v \in Inputs("halo_exclusion") :
          Update("halo_exclusion" :> v, <<"halo_exclusion">>)
    \/ \E n \in DeepReads : ReadAttr(n)
    \/ FindMMin(150)

SpecDeep == InitDeep /\ [][NextDeep]_vars

\* the values update() is tried with in the runs that follow it further
UpdInputs(p) ==
    CASE p = "ng" -> Inputs("ng")
      [] p = "hod_params" -> {NoKey, 10, 13}
      [] p = "hod_model" -> {Str("Zehavi05"), Str("Zheng05")}

\* runs of update(), with and without ng and M_min, of reads of mean_gal_den
\* and of the solver
InitUpd ==
    /\ live \in Constructed
    /\ last = NoOp
    /\ errs = {}
    /\ budget = MaxUpdOps

NextUpd ==
    \/ Update(<<>>, <<>>)
    \/ \E v \in UpdInputs("ng") : Update("ng" :> v, <<>>)
    \/ \E p \in {"hod_params", "hod_model"} : \E v \in UpdInputs(p) :
          Update(p :> v, <<p>>)
    \/ \E p \in {"hod_params", "hod_model"} :
          \E v \in UpdInputs("ng") : \E w \in UpdInputs(p) :
            Update("ng" :> v @@ p :> w, <<p>>)
    \/ ReadAttr("mean_gal_den")
    \/ \E ng \in Inputs("ng") \ {NoNg} : FindMMin(ng)

SpecUpd == InitUpd /\ [][NextUpd]_vars

-----------------------------------------------------------------------------
(* Properties *)

\* the derived quantities of the cache contract
Quantities ==
    {"r", "hod", "M", "n_cen", "n_sat", "n_tot", "bias", "cm",
     "concentration", "profile", "mean_gal_den", "bias_effective",
     "mass_effective", "satellite_fraction", "_power_gg_1h_ss",
     "_corr_gg_1h_ss", "_corr_gg_1h_cs", "corr_gal_1h", "corr_gal_2h",
     "corr_gal"}

\* the cached value of n is the one its rule computes from the parameters
UpToDate(n) ==
    With(RuleValue(live, n), LAMBDA now : now.ok => live.val[n] = now.v)

\* C1: after any sequence of updates and reads, every cached derived quantity
\* has the value its rule computes from the current parameter state: no
\* cached value survives a change to something its rule's body reads.
C1_NoStaleValue == \A n \in Quantities \cap live.valid : UpToDate(n)

\* the quantities an update of halo_exclusion alone must keep, and must mark
Kept == {"corr_gal_1h", "bias", "concentration", "profile"}
Marked == {"corr_gal_2h", "corr_gal"}

\* the step changed the parameter halo_exclusion and no other
OnlyExclusionChanged ==
    {p \in ParamNames : live'.par[p] # live.par[p]} = {"halo_exclusion"}

\* C2: from a state with corr_gal, corr_gal_1h, corr_gal_2h, bias,
\* concentration and profile all cached, an update that changes only
\* halo_exclusion keeps corr_gal_1h, bias, concentration and profile cached
\* with their values (the next read runs no rule for them) and marks
\* corr_gal_2h and corr_gal, which the next read of corr_gal recomputes;
\* with ng None as with ng fixed.
C2_ExclusionUpdate ==
    [][(/\ last'.op = "update"
        /\ last'.ok
        /\ OnlyExclusionChanged
        /\ (Kept \cup Marked) \subseteq live.valid)
       => /\ \A n \in Kept : /\ n \in live'.valid
                             /\ live'.val[n] = live.val[n]
                             /\ Get(live', n).ran = {}
          /\ \A n \in Marked : /\ n \notin live'.valid
                               /\ n \in Get(live', n).ran
          /\ Get(live', "corr_gal").ran = Marked]_vars

\* C2, reached: with ng fixed and all six cached, update(halo_exclusion=
\* "sphere") went through, kept the four and marked the two
C2_Witness ==
    /\ last.op = "update"
    /\ last.ok
    /\ DOMAIN last.kw = {"halo_exclusion"}
    /\ live.par["halo_exclusion"] = Str("sphere")
    /\ live.par["ng"] # NoNg
    /\ (Kept \cup Marked) \subseteq last.cached
    /\ Kept \subseteq live.valid
    /\ Marked \cap live.valid = {}

\* C3: a call of _find_m_min(ng) on the live instance, returning or raising,
\* changes none of its parameters and changes or invalidates none of the
\* derived values cached on it: the clone's updates stay on the clone.
C3_SolverLeavesLive ==
    [][last'.op = "find"
       => /\ live'.par = live.par
          /\ \A n \in live.valid : /\ n \in live'.valid
                                   /\ live'.val[n] = live.val[n]]_vars

\* C3, reached: the smooth branch ran its trial updates on the clone while
\* the live instance had n_tot cached, and still has
C3_Witness ==
    /\ last.op = "find"
    /\ last.ok
    /\ last.st.copies = 1
    /\ last.st.trials > 0
    /\ "n_tot" \in last.cached
    /\ "n_tot" \in live.valid

\* C4: update is all-or-nothing: when an update call raises, every
\* parameter of the live instance has the value it had before the call.
C4_UpdateAllOrNothing ==
    [][(/\ last'.op = "update"
        /\ ~last'.ok
        /\ last'.err \in {"ValueError", "NGException"})
       => live'.par = live.par]_vars

\* the solver got as far as choosing its branch
Solved == last.op \in {"find", "update"} /\ last.st.branch # ""

\* C5: for a target density above the largest achievable one, _find_m_min
\* raises NGException, returns no mass, and reports a value that is at least
\* the largest achievable density.
C5_Infeasible ==
    (Solved /\ last.ng > last.st.maxden)
      => /\ ~last.ok
         /\ last.err = "NGException"
         /\ last.st.reported >= last.st.maxden

\* C5, reached: the sharp branch refused ng = 1000, reporting 297
C5_Witness ==
    /\ last.op = "find"
    /\ last.st.branch = "sharp"
    /\ last.ng = 1000
    /\ last.err = "NGException"
    /\ last.st.reported = 297
    /\ last.st.maxden = 297

\* C6: when the minimisation of the smooth branch uses up its iterations
\* without converging, the solver raises; it never returns the last estimate
\* as M_min.
C6_NonConvergenceSurfaced ==
    (Solved /\ last.st.branch = "smooth" /\ ~last.st.converged) => ~last.ok

\* the selector of the family resolves to a model
ResolvesIn(o, p) ==
    IsSubclass(o.par[p], BaseOf(p)) \/ get_model(p, o.par[p]) = "ok"

Resolves(p) == ResolvesIn(live, p)

\* C7: a selector that names no valid model is rejected when it is assigned:
\* no read of hod, bias, cm, profile or of a quantity downstream fails
\* because a stored selector names no model.
C7_NoDeferredSelectorFailure ==
    ~(/\ last.op = "read"
      /\ ~last.ok
      /\ \E n \in {"hod", "bias", "cm", "profile"} \cap last.failed :
            ~Resolves(SelectorOf(n)))

\* the five exclusion schemes, as stored
Schemes == {Str(x) : x \in available}

\* C8: the stored halo_exclusion is always one of the five strings; assigning
\* None stores "None"; assigning anything else outside the five raises
\* ValueError and leaves the stored value as it was.
C8_HaloExclusion ==
    /\ [](live.par["halo_exclusion"] \in Schemes)
    /\ [][(last'.op = "assign" /\ last'.name = "halo_exclusion")
          => /\ last'.kw["halo_exclusion"] = PyNone
                  => /\ last'.ok
                     /\ live'.par["halo_exclusion"] = Str("None")
             /\ last'.kw["halo_exclusion"] \in Schemes
                  => /\ last'.ok
                     /\ live'.par["halo_exclusion"]
                          = last'.kw["halo_exclusion"]
             /\ last'.kw["halo_exclusion"] \notin Schemes \cup {PyNone}
                  => /\ ~last'.ok
                     /\ last'.err = "ValueError"
                     /\ live'.par["halo_exclusion"]
                          = live.par["halo_exclusion"]]_vars

\* C8, reached: "cube" was refused and the stored "sphere" stayed
C8_Witness ==
    /\ last.op = "assign"
    /\ last.name = "halo_exclusion"
    /\ last.kw["halo_exclusion"] = Str("cube")
    /\ ~last.ok
    /\ live.par["halo_exclusion"] = Str("sphere")

\* C9: when a rule raises, the read raises the same error and neither the
\* quantity nor any quantity downstream of it is cached: a quantity whose
\* latest computation raised is never cached, a read of a quantity that is
\* not cached runs its rule, and a read returns only if every model its
\* rules had to build exists.
C9_FailureNotCached ==
    /\ [](errs \cap live.valid = {})
    /\ [][last'.op = "read"
          => /\ ~last'.ok
                  => /\ last'.err = "AttributeError"
                     /\ last'.name \in last'.failed
                     /\ last'.failed \cap live'.valid = {}
             /\ (last'.ok /\ last'.name \in NodeNames \ live.valid)
                  => last'.name \in last'.ran
             /\ last'.ok
                  => \A n \in {"hod", "bias", "cm", "profile"} \cap last'.ran :
                        ResolvesIn(live', SelectorOf(n))]_vars

\* C9, reached: hod and corr_gal had raised; after the selector was
\* corrected a read of corr_gal ran their rules again and returned
C9_Witness ==
    /\ last.op = "read"
    /\ last.name = "corr_gal"
    /\ last.ok
    /\ {"hod", "corr_gal"} \subseteq last.recovered
    /\ "corr_gal" \in live.valid

\* C10: whenever corr_gal, corr_gal_1h and corr_gal_2h are all cached, the
\* cached corr_gal is the sum of the cached corr_gal_1h and the cached
\* corr_gal_2h (the value computed from exactly those two).
C10_CorrGalIsSum ==
    {"corr_gal", "corr_gal_1h", "corr_gal_2h"} \subseteq live.valid
      => live.val["corr_gal"]
           = Sum(live.val["corr_gal_1h"], live.val["corr_gal_2h"])

\* C10, reached: corr_gal was recomputed from a fresh corr_gal_2h and the
\* corr_gal_1h that had stayed cached
C10_Witness ==
    /\ last.op = "read"
    /\ last.name = "corr_gal"
    /\ last.ran = {"corr_gal_2h", "corr_gal"}
    /\ "corr_gal_1h" \in last.cached
    /\ {"corr_gal", "corr_gal_1h", "corr_gal_2h"} \subseteq live.valid

\* the density a value of mean_gal_den stands for
Density(v) ==
    IF \E l \in v : l[1] = "trapz" THEN ParOf(v, "trapz") ELSE ParOf(v, "ng")

\* the density the current parameters give: ng when it is fixed, else the
\* trapezoidal integral over the current mass grid
CurrentDensity(o) ==
    IF o.par["ng"] # NoNg THEN o.par["ng"]
    ELSE trapz(Integrand(o), o.par["dlog10m"])

\* update(hod_params={"M_min": ...}) without ng, on an instance with ng fixed
ClearsNg ==
    /\ last'.op = "update"
    /\ last'.ok
    /\ "ng" \notin DOMAIN last'.kw
    /\ "hod_params" \in DOMAIN last'.kw
    /\ last'.kw["hod_params"] # NoKey
    /\ live.par["ng"] # NoNg

\* C11: a read of mean_gal_den returns ng whenever ng is not None, and
\* otherwise the trapezoidal integral of M * dndm * n_tot over the current
\* mass grid; after an update that clears ng the next read returns the
\* integral, not the ng value that was cached.
C11_MeanGalDen ==
    /\ []("mean_gal_den" \in live.valid
            => Density(live.val["mean_gal_den"]) = CurrentDensity(live))
    /\ [][(last'.op = "read" /\ last'.name = "mean_gal_den" /\ last'.ok)
          => /\ "mean_gal_den" \in live'.valid
             /\ (live'.par["ng"] # NoNg)
                  = (live'.val["mean_gal_den"] = {<<"ng", live'.par["ng"]>>})
         ]_vars
    /\ [][(ClearsNg /\ "mean_gal_den" \in live.valid)
          => With(Get(live', "mean_gal_den"), LAMBDA got :
               /\ got.ok
               /\ "mean_gal_den" \in got.ran
               /\ Density(got.v)
                    = trapz(Integrand(live'), live'.par["dlog10m"]))]_vars

\* C11, reached: ng was 150 and mean_gal_den cached as ng; update(hod_params=
\* {"M_min": 10}) stored the M_min that was there already and cleared ng,
\* and the next read computes the integral
C11_Witness ==
    /\ last.op = "update"
    /\ last.ok
    /\ DOMAIN last.kw = {"hod_params"}
    /\ last.kw["hod_params"] = 10
    /\ last.ng0 = 150
    /\ "mean_gal_den" \in last.cached
    /\ live.par["ng"] = NoNg
    /\ "mean_gal_den" \notin live.valid
    /\ Density(Get(live, "mean_gal_den").v)
         = trapz(Integrand(live), live.par["dlog10m"])
    /\ Density(Get(live, "mean_gal_den").v) # 150

\* C12: two consecutive reads of the same derived quantity, with no
\* assignment or update between them, return the identical value, and the
\* second read runs no rule, neither the quantity's own nor a dependency's.
C12_ReadTwice ==
    /\ [][(last'.op = "read" /\ last'.ok /\ last'.name \in NodeNames)
          => With(Get(live', last'.name), LAMBDA again :
               /\ again.ok
               /\ again.ran = {}
               /\ again.v = Get(live, last'.name).v
               /\ again.o = live')]_vars
    /\ [][(/\ last.op = "read" /\ last.ok
           /\ last'.op = "read" /\ last'.name = last.name)
          => /\ last'.ok
             /\ last'.ran = {}
             /\ live' = live]_vars

\* C12, reached: corr_gal was read twice in a row; the second read found it
\* cached and ran nothing
C12_Witness ==
    /\ budget = MaxOps - 2
    /\ last.op = "read"
    /\ last.name = "corr_gal"
    /\ last.ok
    /\ last.ran = {}
    /\ "corr_gal" \in last.cached
    /\ "corr_gal" \in live.valid

\* self._find_m_min(self.ng) on the instance as it is now
Solve(o) == _find_m_min(<<o>>, 1, o.par["ng"], NoStats, 1)

\* C13: after construction with ng not None, and after every update that
\* returns with ng not None, hod_params holds the M_min that _find_m_min
\* returns for that ng on the instance as the call left it: the solve runs
\* once, after the other parameters of the call have been applied.
C13_MminSolved ==
    (last.op \in {"init", "update"} /\ last.ok /\ live.par["ng"] # NoNg)
      => /\ Solve(live).ok
         /\ live.par["hod_params"] = Solve(live).mmin
         /\ last.op = "update" => last.st.solves = 1

\* C13, reached: update(ng=150, hod_model="Zheng05") on an instance whose hod
\* was cached: hod was computed again inside the call, the solver took the
\* smooth branch of the new model, and its result is the stored M_min
C13_Witness ==
    /\ last.op = "update"
    /\ last.ok
    /\ DOMAIN last.kw = {"ng", "hod_model"}
    /\ last.kw["ng"] = 150
    /\ last.kw["hod_model"] = Str("Zheng05")
    /\ "hod" \in last.cached
    /\ "hod" \in last.ran
    /\ last.st.branch = "smooth"
    /\ live.par["hod_params"] = Solve(live).mmin
    /\ live.par["hod_params"] # NoKey

\* the keywords bring an M_min
HasMmin(kw) == "hod_params" \in DOMAIN kw /\ kw["hod_params"] # NoKey

\* C14: update switches between the two ways of fixing the minimum mass.
\* With an M_min and no ng it sets ng to None, runs no solver and leaves
\* M_min as given; with ng it sets ng to that value and the solver's result
\* overrides an M_min passed with it; with neither it keeps ng and, if ng is
\* not None, solves M_min again.
C14_UpdateSwitch ==
    [][last'.op = "update"
       => /\ ("ng" \notin DOMAIN last'.kw /\ HasMmin(last'.kw) /\ last'.ok)
               => /\ live'.par["ng"] = NoNg
                  /\ last'.st.solves = 0
                  /\ live'.par["hod_params"] = last'.kw["hod_params"]
          /\ "ng" \in DOMAIN last'.kw
               => /\ live'.par["ng"] = last'.kw["ng"]
                  /\ (last'.ok /\ last'.kw["ng"] # NoNg)
                       => /\ last'.st.solves = 1
                          /\ live'.par["hod_params"] = Solve(live').mmin
                  /\ (last'.ok /\ last'.kw["ng"] = NoNg)
                       => last'.st.solves = 0
          /\ ("ng" \notin DOMAIN last'.kw /\ ~HasMmin(last'.kw))
               => /\ live'.par["ng"] = live.par["ng"]
                  /\ (last'.ok /\ live.par["ng"] # NoNg)
                       => /\ last'.st.solves = 1
                          /\ live'.par["hod_params"] = Solve(live').mmin
                  /\ live.par["ng"] = NoNg
                       => /\ last'.ok
                          /\ last'.st.solves = 0]_vars

\* C14, reached: with ng fixed at 150, update(hod_params={"M_min": 13}) set
\* ng to None, ran no solver and left M_min at 13
C14_Witness ==
    /\ last.op = "update"
    /\ last.ok
    /\ DOMAIN last.kw = {"hod_params"}
    /\ last.kw["hod_params"] = 13
    /\ last.ng0 = 150
    /\ live.par["ng"] = NoNg
    /\ last.st.solves = 0
    /\ live.par["hod_params"] = 13

\* what one call of the solver did: one entry, one deep copy, and on the
\* clone the initial update and one update per trial of the objective
RanOnce(st) ==
    /\ st.solves = 1
    /\ st.copies = 1
    /\ st.clone_updates = 1 + st.trials

\* C15: _find_m_min never re-enters itself: the updates applied to the
\* working clone clear the clone's ng, so they start no nested solve and no
\* nested deep copy; each call of the constructor or of update runs the
\* solver at most once and then completes or raises.
C15_NoReentry ==
    /\ last.op \in {"update", "find"}
         => /\ last.st.solves <= 1
            /\ last.st.copies <= 1
            /\ last.err # "RecursionError"
            /\ last.st.solves = 1 => RanOnce(last.st)
            /\ last.st.solves = 0
                 => last.st.copies = 0 /\ last.st.clone_updates = 0
    /\ (last.op = "init" /\ live.par["ng"] # NoNg) => RanOnce(Solve(live).st)

\* C15, reached: update(ng=150) on an instance whose ng was fixed already
\* took the smooth branch; the clone, copied with ng fixed, went through the
\* initial update and the trial updates with a single solve and a single copy
C15_Witness ==
    /\ last.op = "update"
    /\ last.ok
    /\ last.ng0 # NoNg
    /\ live.par["ng"] = 150
    /\ last.st.branch = "smooth"
    /\ last.st.trials > 1
    /\ RanOnce(last.st)

\* the solver took the sharp branch and computed the cumulative integral
SharpSolved == Solved /\ last.st.branch = "sharp" /\ last.st.integral # <<>>

\* integral[-1] >= ng: the feasibility check of the sharp branch passes
Feasible == last.st.integral[Len(last.st.integral)] >= last.ng

\* C16: in the sharp branch, whenever the feasibility check passes, a first
\* index at which the cumulative integral exceeds ng exists and the solver
\* returns a mass; for ng equal to the largest cumulative integral it
\* returns a mass or raises NGException, never any other failure.
C16_FeasibleReturns ==
    SharpSolved
      => /\ Feasible => (last.st.ind >= 0 /\ last.ok)
         /\ last.ng = last.st.maxden
              => (last.ok \/ last.err = "NGException")

\* the solver's working clone of o: M_min at the floor, the fine step
CloneOf(o) ==
    [o EXCEPT !.par["hod_params"] = LogMFloor, !.par["dlog10m"] = FineStep]

\* the density above the mass threshold t on the clone's grid
DensityAbove(o, t) ==
    trapz(Integrand([CloneOf(o) EXCEPT !.par["hod_params"] = t]), FineStep)

\* the solver located an index and cut its window
Located == SharpSolved /\ last.st.ind >= 0

\* the 0-based index of the window's first element in the integral
WindowLo == Max(last.st.ind - 4, 0)

\* the points of the window below ind, and above it
Below == last.st.ind - WindowLo
Above == WindowLo + Len(last.st.window) - 1 - last.st.ind

\* the window contains ind, has at least 4 points, and is as long as the
\* mass window, whose element i is the threshold of the window's element i
WindowAligned ==
    /\ Below >= 0
    /\ Above >= 0
    /\ Len(last.st.window) >= 4
    /\ Len(last.st.m) = Len(last.st.window)
    /\ \A i \in 1..Len(last.st.window) :
          /\ last.st.window[i] = last.st.integral[WindowLo + i]
          /\ last.st.window[i] = DensityAbove(live, last.st.m[i])

\* the same number of points, up to 4, on each side of ind, fewer only
\* where the array ends
WindowSymmetric ==
    /\ Below = Min(4, last.st.ind)
    /\ Above = Min(4, Len(last.st.integral) - 1 - last.st.ind)

\* C17: in the sharp branch, for every located index ind the interpolation
\* window is symmetric about ind (up to 4 points on each side, clipped only
\* at the array ends), contains ind, has at least 4 points, and the mass
\* window has the same length, element i being the mass threshold of
\* element i of the integral window.
C17_Window == Located => (WindowAligned /\ WindowSymmetric)

NonDecreasing(s) == \A i \in 1..(Len(s) - 1) : s[i] <= s[i + 1]

\* C18: for a sharp-cutoff occupation with non-negative dndm and n_tot, the
\* cumulative integral over the grid in decreasing-mass order is
\* non-decreasing along the array: the density above a threshold does not
\* increase as the threshold mass increases, and every window handed to the
\* interpolant is monotone.
C18_Monotone ==
    SharpSolved
      => /\ NonDecreasing(last.st.integral)
         /\ Located
              => /\ NonDecreasing(last.st.window)
                 /\ \A i, j \in 1..Len(last.st.window) :
                       last.st.m[i] < last.st.m[j]
                         => last.st.window[i] >= last.st.window[j]

\* C18, reached: _find_m_min(150) cut a window of 7 points out of a
\* cumulative integral that rises from 9 to 297
C18_Witness ==
    /\ last.op = "find"
    /\ last.ok
    /\ Located
    /\ Len(last.st.integral) = 9
    /\ last.st.integral[1] < last.st.integral[9]
    /\ Len(last.st.window) = 7
    /\ last.st.window[1] < last.st.window[7]
    /\ last.st.m[1] > last.st.m[7]

\* the quantities the step took out of the cache
Invalidated == live.valid \ live'.valid

\* C19: the names in the declared dependency lists are names of parameters
\* or quantities of the model, so invalidation follows every declared edge:
\* a change that invalidates _power_gg_1h_ss also invalidates
\* _corr_gg_1h_ss, and a change that invalidates _corr_gg_1h_cs or
\* _corr_gg_1h_ss also invalidates corr_gal_1h.
C19_DeclaredEdges ==
    [][/\ "_power_gg_1h_ss" \in Invalidated
            => "_corr_gg_1h_ss" \notin live'.valid
       /\ {"_corr_gg_1h_cs", "_corr_gg_1h_ss"} \cap Invalidated # {}
            => "corr_gal_1h" \notin live'.valid]_vars

\* C20: a read of corr_gal_1h returns a value on both branches of the
\* profile's has_lam flag: the direct real-space integral when the profile
\* supplies lam, and the sum of _corr_gg_1h_cs and _corr_gg_1h_ss when it
\* does not; neither branch fails by reading a quantity that does not exist.
C20_CorrGal1hReturns ==
    (/\ last.op = "read"
     /\ last.name = "corr_gal_1h"
     /\ \A p \in Selectors : Resolves(p))
      => /\ last.ok
         /\ last.err # "AttributeError"
         /\ "corr_gal_1h" \in live.valid
         /\ ~HasLam(live.par["halo_profile"])
              => {"_corr_gg_1h_cs", "_corr_gg_1h_ss"} \subseteq live.valid

\* the quantities of the bias, concentration and profile stages
StageOf(p) ==
    CASE p = "bias_params" -> {"bias"}
      [] p = "cm_params" -> {"cm", "concentration"}
      [] p = "halo_profile" -> {"profile"}

Stages == {"bias", "cm", "concentration", "profile"}

\* the stage a quantity of the three belongs to
OwnStage(n) ==
    IF n = "bias" THEN {"bias"}
    ELSE IF n = "profile" THEN {"profile"}
    ELSE {"cm", "concentration"}

\* a read of a quantity of one stage ran no rule of another stage
ReadsNoOtherStage ==
    (last.op = "read" /\ last.name \in Stages)
      => last.ran \cap Stages \subseteq OwnStage(last.name)

\* an assignment that changed only bias_params, only cm_params or only
\* halo_profile took the cached quantities of that stage, and of no other
\* of the three, out of the cache
InvalidatesOwnStage ==
    (/\ last'.op = "assign"
     /\ last'.name \in {"bias_params", "cm_params", "halo_profile"}
     /\ live'.par[last'.name] # live.par[last'.name])
      => Invalidated \cap Stages = StageOf(last'.name) \cap live.valid

\* C21: the bias, concentration and profile stages are mutually
\* independent: none of the three reads another's value, and a change of
\* only bias_params invalidates bias alone, a change of only cm_params the
\* concentration stage (cm, concentration) alone, and a change of only
\* halo_profile profile alone among the three.
C21_StagesIndependent ==
    /\ []ReadsNoOtherStage
    /\ [][InvalidatesOwnStage]_vars

=============================================================================
